---- MODULE Spec2Model ----
(***************************************************************************)
(* Background-removal engine of bg-remover-app: remover/bg_processor.py    *)
(* (four strategies, the consensus combiner, the fallback chain) and the   *)
(* method dispatch of remover/views.py.                                    *)
(*                                                                         *)
(* An image is a record [mode, w, h, px] with px a function on the flat    *)
(* index y*w+x (0-based) giving the tuple of the pixel's bands.            *)
(* Real-valued comparisons of the code (square roots, means) are stated    *)
(* as the equivalent exact integer inequalities.                           *)
(***************************************************************************)
EXTENDS Integers, Sequences, FiniteSets, TLC

VARIABLES file, method, pc, img, original, result1, result2, result3,
          ret, raised, calls, excs, blurSel, edgeSel

vars == <<file, method, pc, img, original, result1, result2, result3,
          ret, raised, calls, excs, blurSel, edgeSel>>

(***************************************************************************)
(* Bounds of the model.                                                    *)
(***************************************************************************)
\* small images have every width and height in 1..SmallSide
SmallSide == 2
\* a one-row strip, long enough for the distance mask to fall under 128
StripLen == 40
\* a square image large enough for strategy 4 to sample a border strip
BigSide == 20

(***************************************************************************)
(* Program constants.                                                      *)
(***************************************************************************)
ColorDiffLimit == 50
MaskCut == 128
BlurCut == 100
EdgeCut == 50
EdgeCap == 100
BorderDiv == 20
StrideDiv == 50

(***************************************************************************)
(* Images.                                                                 *)
(***************************************************************************)
NoImage == [mode |-> "none", w |-> 0, h |-> 0, px |-> [i \in {} |-> <<>>]]

\* an input Image.open cannot identify
Corrupt == [mode |-> "corrupt", w |-> 0, h |-> 0, px |-> [i \in {} |-> <<>>]]

Cells(w, h) == 0 .. (w * h - 1)

XOf(i, w) == i % w

YOf(i, w) == i \div w

Min2(a, b) == IF a < b THEN a ELSE b

Max2(a, b) == IF a > b THEN a ELSE b

Transparent == <<0, 0, 0, 0>>

\* one pixel of img.convert('RGBA')
ToRGBA(mode, p) ==
  CASE mode = "L"    -> <<p[1], p[1], p[1], 255>>
    [] mode = "RGB"  -> <<p[1], p[2], p[3], 255>>
    [] mode = "RGBA" -> p

\* one pixel of img.convert('RGB')
ToRGB(mode, p) ==
  CASE mode = "L"    -> <<p[1], p[1], p[1]>>
    [] mode = "RGB"  -> p
    [] mode = "RGBA" -> <<p[1], p[2], p[3]>>

ConvertRGBA(im) == [mode |-> "RGBA", w |-> im.w, h |-> im.h,
                    px |-> [i \in Cells(im.w, im.h) |-> ToRGBA(im.mode, im.px[i])]]

ConvertRGB(im) == [mode |-> "RGB", w |-> im.w, h |-> im.h,
                   px |-> [i \in Cells(im.w, im.h) |-> ToRGB(im.mode, im.px[i])]]

\* ImageFilter.MedianFilter(size=3) on an L mask: the 5th smallest of the 3x3
\* window, the window's coordinates clamped to the image
Clamp(v, hi) == IF v < 0 THEN 0 ELSE IF v > hi THEN hi ELSE v

Window(mask, w, h, i) ==
  [k \in 0 .. 8 |->
     mask[Clamp(YOf(i, w) + (k \div 3) - 1, h - 1) * w
          + Clamp(XOf(i, w) + (k % 3) - 1, w - 1)]]

MedianOf(win) ==
  CHOOSE v \in {win[k] : k \in DOMAIN win} :
     /\ Cardinality({k \in DOMAIN win : win[k] < v}) <= 4
     /\ Cardinality({k \in DOMAIN win : win[k] <= v}) >= 5

MedianFilter3(mask, w, h) ==
  [i \in Cells(w, h) |-> MedianOf(Window(mask, w, h, i))]

\* a variant that composites every kept pixel fully opaque
CompositeOpaque(mask, cut, rgba) ==
  [mode |-> "RGBA", w |-> rgba.w, h |-> rgba.h,
   px |-> [i \in Cells(rgba.w, rgba.h) |->
             IF mask[i] > cut
             THEN <<rgba.px[i][1], rgba.px[i][2], rgba.px[i][3], 255>>
             ELSE Transparent]]

\* the compositing loops: the RGBA pixel where the mask passes the cut, else
\* the (0,0,0,0) of the new image
Composite(mask, cut, rgba) ==
  [mode |-> "RGBA", w |-> rgba.w, h |-> rgba.h,
   px |-> [i \in Cells(rgba.w, rgba.h) |->
             IF mask[i] > cut THEN rgba.px[i] ELSE Transparent]]

\* what a strategy call leaves: its return value (or the exception) and the
\* source image object it was handed
Returned(image, source) == [ok |-> TRUE, ret |-> image, kind |-> "", src |-> source]

Raised(kind, source) == [ok |-> FALSE, ret |-> NoImage, kind |-> kind, src |-> source]

(***************************************************************************)
(* Strategy 1: grabcut_simulation.                                         *)
(***************************************************************************)
\* uint8 arithmetic of numpy
Wrap8(n) == n % 256

\* np.sum((pixel_color[:3] - center_color[:3]) ** 2): the difference and the
\* square are uint8 and wrap, the sum is taken in a wide integer
ColorDiffSq(p, c) ==
  LET d(k) == Wrap8(p[k] - c[k])
      sq(k) == Wrap8(d(k) * d(k))
  IN  sq(1) + sq(2) + sq(3)

InSeed(x, y, w, h) ==
  LET center_x == w \div 2
      center_y == h \div 2
      margin_x == w \div 4
      margin_y == h \div 4
  IN  /\ center_y - margin_y <= y /\ y < center_y + margin_y
      /\ center_x - margin_x <= x /\ x < center_x + margin_x

\* the mask before the median filter
GrabcutMask(im) ==
  LET center_color == im.px[(im.h \div 2) * im.w + (im.w \div 2)]
  IN  [i \in Cells(im.w, im.h) |->
         IF \/ InSeed(XOf(i, im.w), YOf(i, im.w), im.w, im.h)
            \/ ColorDiffSq(im.px[i], center_color) < ColorDiffLimit * ColorDiffLimit
         THEN 255 ELSE 0]

\* a variant that writes its result into the image it was handed
grabcut_simulation_inplace(im) ==
  IF im.mode = "L"
  THEN Raised("IndexError", im)
  ELSE LET out == Composite(MedianFilter3(GrabcutMask(im), im.w, im.h), MaskCut,
                            ConvertRGBA(im))
       IN  Returned(out, out)

grabcut_simulation(im) ==
  IF im.mode = "L"
  THEN \* img_array[y, x] is a scalar: pixel_color[:3] raises IndexError
       Raised("IndexError", im)
  ELSE Returned(Composite(MedianFilter3(GrabcutMask(im), im.w, im.h), MaskCut,
                          ConvertRGBA(im)), im)

(***************************************************************************)
(* Strategy 2: color_clustering_removal.                                   *)
(***************************************************************************)
RECURSIVE SumTo(_, _)
\* f[0] + ... + f[n-1]
SumTo(f, n) == IF n = 0 THEN 0 ELSE f[n - 1] + SumTo(f, n - 1)

\* the sum of band k over edge_pixels: rows 0 and -1, then columns 0 and -1
\* (a corner pixel is counted once per line it lies on)
EdgeSum(rgb, k) ==
  LET w == rgb.w
      h == rgb.h
  IN  SumTo([x \in 0 .. (w - 1) |-> rgb.px[x][k] + rgb.px[(h - 1) * w + x][k]], w)
      + SumTo([y \in 0 .. (h - 1) |-> rgb.px[y * w][k] + rgb.px[y * w + w - 1][k]], h)

\* distance > threshold, with bg_color = S / n the mean of the n = 2w+2h edge
\* pixels (S their band sums) and threshold = 60 + 0.5 * edge_distance; both
\* sides times n, squared: sum_k (n*p[k] - S[k])^2 > ((n/2)*(120 + edge_distance))^2
FarFromBackground(rgb, S, i) ==
  LET w == rgb.w
      h == rgb.h
      x == XOf(i, w)
      y == YOf(i, w)
      n == 2 * w + 2 * h
      edge_distance == Min2(Min2(x, y), Min2(w - x - 1, h - y - 1))
      t(k)  == n * rgb.px[i][k] - S[k]
      bound == (w + h) * (120 + edge_distance)
  IN  t(1) * t(1) + t(2) * t(2) + t(3) * t(3) > bound * bound

ClusterMask(im) ==
  LET rgb == ConvertRGB(im)
      S   == <<EdgeSum(rgb, 1), EdgeSum(rgb, 2), EdgeSum(rgb, 3)>>
  IN  [i \in Cells(im.w, im.h) |-> IF FarFromBackground(rgb, S, i) THEN 255 ELSE 0]

MinOf(mask) ==
  LET vs == {mask[i] : i \in DOMAIN mask}
  IN  CHOOSE v \in vs : \A u \in vs : v <= u

MaxOf(mask) ==
  LET vs == {mask[i] : i \in DOMAIN mask}
  IN  CHOOSE v \in vs : \A u \in vs : v >= u

\* ImageFilter.GaussianBlur(radius=2) is Pillow's; every output value is a
\* weighted average of the (edge-extended) input, so it lies between the
\* input's least and greatest value.  Three outcomes stand for that envelope:
\* the foreground is blurred away, the mask keeps its shape, the foreground
\* spreads over the image.  A constant mask has the one outcome.
BlurSels == {"lo", "same", "hi"}

GaussianBlur(mask, sel) ==
  LET lo == MinOf(mask)
      hi == MaxOf(mask)
  IN  CASE sel = "lo"   -> [i \in DOMAIN mask |-> lo]
        [] sel = "same" -> mask
        [] sel = "hi"   -> [i \in DOMAIN mask |-> hi]

color_clustering_removal(im, sel) ==
  Returned(Composite(GaussianBlur(ClusterMask(im), sel), BlurCut, ConvertRGBA(im)), im)

(***************************************************************************)
(* Strategy 3: advanced_edge_segmentation and create_distance_mask.        *)
(***************************************************************************)
\* edges_combined (FIND_EDGES, Contrast, EDGE_ENHANCE_MORE, blend) is built by
\* Pillow's filters; the model takes the set of pixels it leaves above 50 as
\* one of: none, every pixel, the first pixel alone
EdgeSels == {"none", "all", "origin"}

EdgesCombined(im, sel) ==
  [i \in Cells(im.w, im.h) |->
     CASE sel = "none"   -> 0
       [] sel = "all"    -> 255
       [] sel = "origin" -> IF i = 0 THEN 255 ELSE 0]

\* the scan order of the loops: x outer, y inner
ScanOrder(w, h) == [k \in 1 .. (w * h) |-> ((k - 1) % h) * w + ((k - 1) \div h)]

\* edge_pixels[:100]
EdgePixels(edges, w, h) ==
  LET all == SelectSeq(ScanOrder(w, h), LAMBDA i : edges[i] > EdgeCut)
  IN  SubSeq(all, 1, Min2(EdgeCap, Len(all)))

Dist2(i, j, w) ==
  (XOf(i, w) - XOf(j, w)) * (XOf(i, w) - XOf(j, w))
  + (YOf(i, w) - YOf(j, w)) * (YOf(i, w) - YOf(j, w))

\* the mask value of a squared distance d2 to the nearest edge pixel:
\* int(255 * (50 - d) / 30) is the greatest k with 17 d <= 850 - 2k
MaskValue(d2) ==
  IF d2 < 400 THEN 255
  ELSE IF d2 < 2500
       THEN CHOOSE k \in 0 .. 255 :
              /\ 289 * d2 <= (850 - 2 * k) * (850 - 2 * k)
              /\ \A m \in (k + 1) .. 255 : 289 * d2 > (850 - 2 * m) * (850 - 2 * m)
       ELSE 0

\* min_distance squared: the least squared distance from pixel i to pts
MinDist2(i, pts, w) ==
  LET ds == {Dist2(i, pts[a], w) : a \in 1 .. Len(pts)}
  IN  CHOOSE d \in ds : \A e \in ds : d <= e

create_distance_mask(edges, w, h) ==
  LET pts == EdgePixels(edges, w, h)
  IN  [i \in Cells(w, h) |->
         IF Len(pts) = 0 THEN 0   \* min_distance stays inf
         ELSE MaskValue(MinDist2(i, pts, w))]

advanced_edge_segmentation(im, sel) ==
  Returned(Composite(create_distance_mask(EdgesCombined(im, sel), im.w, im.h),
                     MaskCut, ConvertRGBA(im)), im)

(***************************************************************************)
(* combine_results.                                                        *)
(***************************************************************************)
\* a variant that averages over all results, not over the voters
CombinePixelMeanOfAll(results, i) ==
  LET voting == {r \in 1 .. Len(results) : results[r].px[i][4] > 0}
      votes  == Cardinality(voting)
      pixel_sum(c) == SumTo([r \in 0 .. (Len(results) - 1) |->
                               IF (r + 1) \in voting THEN results[r + 1].px[i][c] ELSE 0],
                            Len(results))
  IN  IF votes >= 2
      THEN <<pixel_sum(1) \div Len(results), pixel_sum(2) \div Len(results),
             pixel_sum(3) \div Len(results), pixel_sum(4) \div Len(results)>>
      ELSE Transparent

CombinePixel(results, i) ==
  LET voting == {r \in 1 .. Len(results) : results[r].px[i][4] > 0}
      votes  == Cardinality(voting)
      pixel_sum(c) == SumTo([r \in 0 .. (Len(results) - 1) |->
                               IF (r + 1) \in voting THEN results[r + 1].px[i][c] ELSE 0],
                            Len(results))
  IN  IF votes >= 2
      THEN <<pixel_sum(1) \div votes, pixel_sum(2) \div votes,
             pixel_sum(3) \div votes, pixel_sum(4) \div votes>>
      ELSE Transparent

\* a variant that takes the size as (height, width)
combine_results_transposed(results, orig) ==
  [mode |-> "RGBA", w |-> orig.h, h |-> orig.w,
   px |-> [i \in Cells(orig.w, orig.h) |-> CombinePixel(results, i)]]

combine_results(results, orig) ==
  [mode |-> "RGBA", w |-> orig.w, h |-> orig.h,
   px |-> [i \in Cells(orig.w, orig.h) |-> CombinePixel(results, i)]]

(***************************************************************************)
(* Strategy 4: smart_background_removal_v2 and remove_small_regions.       *)
(***************************************************************************)
\* the range(0, n, max(1, n // 50)) of the sampling loops
Stride(n) == Max2(1, n \div StrideDiv)

StrideCount(n) == (n + Stride(n) - 1) \div Stride(n)

\* sample_points in the order the loops append them: for each i along the top
\* edge and each j < border_width the pixels (i, j) and (i, height-1-j), then
\* along the left edge (j, i) and (width-1-j, i)
SamplePoints(rgba) ==
  LET w  == rgba.w
      h  == rgba.h
      bw == Min2(w, h) \div BorderDiv
      nTop  == StrideCount(w) * bw * 2
      nLeft == StrideCount(h) * bw * 2
      top(k)  == LET i == ((k - 1) \div (2 * bw)) * Stride(w)
                     j == ((k - 1) % (2 * bw)) \div 2
                 IN  IF (k - 1) % 2 = 0 THEN rgba.px[j * w + i]
                                        ELSE rgba.px[(h - 1 - j) * w + i]
      left(k) == LET i == ((k - 1) \div (2 * bw)) * Stride(h)
                     j == ((k - 1) % (2 * bw)) \div 2
                 IN  IF (k - 1) % 2 = 0 THEN rgba.px[i * w + j]
                                        ELSE rgba.px[i * w + (w - 1 - j)]
  IN  [k \in 1 .. (nTop + nLeft) |-> IF k <= nTop THEN top(k) ELSE left(k - nTop)]

\* Counter(sample_points).most_common(1)[0][0]: the most frequent colour, the
\* first one sampled among equally frequent ones
MostCommon(samples) ==
  LET count(c) == Cardinality({k \in DOMAIN samples : samples[k] = c})
      first(c) == CHOOSE k \in DOMAIN samples :
                     samples[k] = c /\ \A m \in 1 .. (k - 1) : samples[m] # c
  IN  CHOOSE c \in {samples[k] : k \in DOMAIN samples} :
        \A d \in {samples[k] : k \in DOMAIN samples} :
           \/ count(c) > count(d)
           \/ count(c) = count(d) /\ first(c) <= first(d)

RECURSIVE ISqrtIn(_, _, _)
\* the integer square root of n, known to lie in lo..hi
ISqrtIn(n, lo, hi) ==
  IF lo = hi THEN lo
  ELSE LET mid == (lo + hi + 1) \div 2
       IN  IF mid * mid <= n THEN ISqrtIn(n, mid, hi) ELSE ISqrtIn(n, lo, mid - 1)

ISqrt(n) == ISqrtIn(n, 0, Min2(n, 46340))

\* B < k * sqrt(N) for integers B >= 0, k > 0, N >= 0, without overflow
LtScaledSqrt(B, k, N) ==
  LET q == B \div k
      r == B % k
      s == ISqrt(N)
      e == N - q * q
      L == e * k - 2 * q * r
  IN  IF s > q THEN TRUE
      ELSE IF s < q THEN FALSE
      ELSE IF L <= 0 THEN FALSE
      ELSE IF L >= k THEN TRUE
      ELSE k * L > r * r

\* color_distance < tolerance at pixel (x, y): with D2 the squared RGB distance
\* to bg_color, C2 the squared distance to the centre and M = w^2 + h^2,
\* tolerance = 30 + 40 * sqrt(C2) / sqrt(M/4) = 30 + 80 * sqrt(C2/M), so
\* sqrt(D2) < tolerance  iff  M*(D2 - 900) - 6400*C2 < 4800 * sqrt(C2*M)
WithinTolerance(item, bg_color, x, y, w, h) ==
  LET center_x == w \div 2
      center_y == h \div 2
      C2 == (x - center_x) * (x - center_x) + (y - center_y) * (y - center_y)
      M  == w * w + h * h
      D2 == (item[1] - bg_color[1]) * (item[1] - bg_color[1])
            + (item[2] - bg_color[2]) * (item[2] - bg_color[2])
            + (item[3] - bg_color[3]) * (item[3] - bg_color[3])
      B  == M * (D2 - 900) - 6400 * C2
  IN  B < 0 \/ LtScaledSqrt(B, 4800, C2 * M)

\* img.putdata(new_data)
NewData(rgba, bg_color) ==
  [mode |-> "RGBA", w |-> rgba.w, h |-> rgba.h,
   px |-> [i \in Cells(rgba.w, rgba.h) |->
             IF WithinTolerance(rgba.px[i], bg_color, XOf(i, rgba.w), YOf(i, rgba.w),
                                rgba.w, rgba.h)
             THEN <<255, 255, 255, 0>>
             ELSE rgba.px[i]]]

remove_small_regions(im) ==
  LET mask == [i \in Cells(im.w, im.h) |-> IF im.px[i][4] > 0 THEN 255 ELSE 0]
  IN  Composite(MedianFilter3(mask, im.w, im.h), MaskCut, im)

\* the try block of smart_background_removal_v2 (lines 226-288)
smart_background_removal_v2(f) ==
  IF f = Corrupt
  THEN Raised("UnidentifiedImageError", NoImage)
  ELSE LET rgba    == ConvertRGBA(f)
           samples == SamplePoints(rgba)
       IN  IF Len(samples) = 0
           THEN \* color_counts.most_common(1) is []: [0] raises IndexError
                Raised("IndexError", rgba)
           ELSE Returned(remove_small_regions(NewData(rgba, MostCommon(samples))), rgba)

(***************************************************************************)
(* Inputs: the uploaded file and the method selector.                      *)
(***************************************************************************)
Palette == {<<0, 0, 0>>, <<255, 255, 255>>, <<50, 0, 0>>}

Modes == {"L", "RGB", "RGBA"}

\* the bands of a pixel of colour c as the file stores them; an RGBA file
\* holds its figure half transparent
RawPixel(mode, c, fg) ==
  CASE mode = "L"    -> <<c[1]>>
    [] mode = "RGB"  -> c
    [] mode = "RGBA" -> <<c[1], c[2], c[3], IF fg THEN 128 ELSE 255>>

\* where the figure lies
IsFigure(kind, x, y, w, h) ==
  CASE kind = "uniform" -> FALSE
    [] kind = "corner"  -> x = 0 /\ y = 0
    [] kind = "half"    -> 2 * x >= w
    [] kind = "centre"  -> /\ 4 * x >= w /\ 4 * x < 3 * w
                           /\ 4 * y >= h /\ 4 * y < 3 * h

MakeImage(mode, w, h, kind, bg, fg) ==
  [mode |-> mode, w |-> w, h |-> h,
   px |-> [i \in Cells(w, h) |->
             LET f == IsFigure(kind, XOf(i, w), YOf(i, w), w, h)
             IN  RawPixel(mode, IF f THEN fg ELSE bg, f)]]

SmallImages ==
  {MakeImage(m, w, h, k, bg, fg) :
     m \in Modes, w \in 1 .. SmallSide, h \in 1 .. SmallSide,
     k \in {"uniform", "corner", "half"}, bg \in Palette, fg \in Palette}

StripImages ==
  {MakeImage(m, StripLen, 1, k, bg, fg) :
     m \in Modes, k \in {"uniform", "half"}, bg \in Palette, fg \in Palette}

\* the figure of a big image: far from its ground, or at distance 50 from it
BigPairs == {<<<<0, 0, 0>>, <<255, 255, 255>>>>, <<<<50, 0, 0>>, <<0, 0, 0>>>>}

BigImages ==
  {MakeImage(m, BigSide, BigSide, "uniform", bg, bg) : m \in Modes, bg \in Palette}
  \cup {MakeImage(m, BigSide, BigSide, "centre", p[1], p[2]) : m \in Modes, p \in BigPairs}

Images == SmallImages \cup StripImages \cup BigImages

Files == Images \cup {Corrupt}

\* request.POST.get('method', 'smart'): the four names and one the form does
\* not offer
Methods == {"white", "edge", "color", "smart", "bogus"}

\* Image.open(image_path) of a readable file: the decoded pixel grid
Decode(f) == f

(***************************************************************************)
(* The request: home dispatches, the engine runs step by step.             *)
(***************************************************************************)
\* a variant that sends every name but "smart" it does not know to strategy 4
DispatchKnownOnly(m) ==
  CASE m = "smart" -> "abr"
    [] m = "edge"  -> "edge"
    [] m = "color" -> "color"
    [] OTHER       -> "v2"

\* the entry point home calls for a method
Dispatch(m) ==
  CASE m = "white" -> "v2"
    [] m = "edge"  -> "edge"
    [] m = "color" -> "color"
    [] OTHER       -> "abr"

\* a variant whose handler skips strategy 4 when the combiner fails
OnExceptionSkipsV2(at) ==
  CASE at \in {"abr_open", "abr_s1", "abr_s2", "abr_s3"} -> "abr_except"
    [] at \in {"abr_combine", "v2"} -> "v2_except"
    [] OTHER -> "propagate"

\* where control goes when the step at `at` raises: the except clause of the
\* enclosing function, or out to the caller
OnException(at) ==
  CASE at \in {"abr_open", "abr_s1", "abr_s2", "abr_s3", "abr_combine"} -> "abr_except"
    [] at = "v2" -> "v2_except"
    [] OTHER     -> "propagate"

Exc(at, kind) == [at |-> at, kind |-> kind]

Init ==
  /\ file \in Files
  /\ method \in Methods
  /\ pc = "home"
  /\ img = NoImage
  /\ original = NoImage
  /\ result1 = NoImage
  /\ result2 = NoImage
  /\ result3 = NoImage
  /\ ret = NoImage
  /\ raised = ""
  /\ calls = <<>>
  /\ excs = <<>>
  /\ blurSel = ""
  /\ edgeSel = ""

\* views.home, lines 24-36
home ==
  /\ pc = "home"
  /\ pc' = Dispatch(method)
  /\ UNCHANGED <<file, method, img, original, result1, result2, result3,
                 ret, raised, calls, excs, blurSel, edgeSel>>

\* a raise at step `at`: recorded, then handled where OnException says
Throw(at, kind) ==
  /\ excs' = Append(excs, Exc(at, kind))
  /\ IF OnException(at) = "propagate"
     THEN /\ pc' = "done"
          /\ raised' = kind
     ELSE /\ pc' = OnException(at)
          /\ UNCHANGED raised

\* advanced_background_removal, lines 10-11
ABROpen ==
  /\ pc = "abr"
  /\ IF file = Corrupt
     THEN /\ Throw("abr_open", "UnidentifiedImageError")
          /\ UNCHANGED <<img, original>>
     ELSE /\ img' = Decode(file)
          /\ original' = ConvertRGBA(Decode(file))
          /\ pc' = "abr_s1"
          /\ UNCHANGED <<raised, excs>>
  /\ UNCHANGED <<file, method, result1, result2, result3, ret, calls, blurSel, edgeSel>>

\* line 14; fault: an exception of the runtime (MemoryError, ...) in the call
ABRGrabcut ==
  /\ pc = "abr_s1"
  /\ calls' = Append(calls, "s1")
  /\ \E fault \in BOOLEAN :
       LET r == grabcut_simulation(img)
       IN  /\ img' = r.src
           /\ IF fault \/ ~r.ok
              THEN /\ Throw("abr_s1", IF r.ok THEN "RuntimeFault" ELSE r.kind)
                   /\ UNCHANGED result1
              ELSE /\ result1' = r.ret
                   /\ pc' = "abr_s2"
                   /\ UNCHANGED <<raised, excs>>
  /\ UNCHANGED <<file, method, original, result2, result3, ret, blurSel, edgeSel>>

\* line 17
ABRColor ==
  /\ pc = "abr_s2"
  /\ calls' = Append(calls, "s2")
  /\ \E fault \in BOOLEAN, sel \in BlurSels :
       LET r == color_clustering_removal(img, sel)
       IN  /\ img' = r.src
           /\ IF fault
              THEN /\ Throw("abr_s2", "RuntimeFault")
                   /\ UNCHANGED <<result2, blurSel>>
              ELSE /\ result2' = r.ret
                   /\ blurSel' = sel
                   /\ pc' = "abr_s3"
                   /\ UNCHANGED <<raised, excs>>
  /\ UNCHANGED <<file, method, original, result1, result3, ret, edgeSel>>

\* line 20
ABREdge ==
  /\ pc = "abr_s3"
  /\ calls' = Append(calls, "s3")
  /\ \E fault \in BOOLEAN, sel \in EdgeSels :
       LET r == advanced_edge_segmentation(img, sel)
       IN  /\ img' = r.src
           /\ IF fault
              THEN /\ Throw("abr_s3", "RuntimeFault")
                   /\ UNCHANGED <<result3, edgeSel>>
              ELSE /\ result3' = r.ret
                   /\ edgeSel' = sel
                   /\ pc' = "abr_combine"
                   /\ UNCHANGED <<raised, excs>>
  /\ UNCHANGED <<file, method, original, result1, result2, ret, blurSel>>

\* lines 23-25
ABRCombine ==
  /\ pc = "abr_combine"
  /\ calls' = Append(calls, "combine")
  /\ \E fault \in BOOLEAN :
       IF fault
       THEN /\ Throw("abr_combine", "RuntimeFault")
            /\ UNCHANGED ret
       ELSE /\ ret' = combine_results(<<result1, result2, result3>>, original)
            /\ pc' = "done"
            /\ UNCHANGED <<raised, excs>>
  /\ UNCHANGED <<file, method, img, original, result1, result2, result3,
                 blurSel, edgeSel>>

\* lines 27-29: the handler hands image_path alone to strategy 4; the locals
\* of the failed attempt are not used again
ABRExcept ==
  /\ pc = "abr_except"
  /\ pc' = "v2"
  /\ img' = NoImage
  /\ original' = NoImage
  /\ result1' = NoImage
  /\ result2' = NoImage
  /\ result3' = NoImage
  /\ blurSel' = ""
  /\ edgeSel' = ""
  /\ UNCHANGED <<file, method, ret, raised, calls, excs>>

\* smart_background_removal_v2, lines 225-288
V2 ==
  /\ pc = "v2"
  /\ calls' = Append(calls, "s4")
  /\ \E fault \in BOOLEAN :
       LET r == smart_background_removal_v2(file)
       IN  IF fault \/ ~r.ok
           THEN /\ Throw("v2", IF r.ok THEN "RuntimeFault" ELSE r.kind)
                /\ UNCHANGED ret
           ELSE /\ ret' = r.ret
                /\ pc' = "done"
                /\ UNCHANGED <<raised, excs>>
  /\ UNCHANGED <<file, method, img, original, result1, result2, result3,
                 blurSel, edgeSel>>

\* lines 290-293
V2Except ==
  /\ pc = "v2_except"
  /\ calls' = Append(calls, "rgba")
  /\ IF file = Corrupt
     THEN /\ Throw("v2_except", "UnidentifiedImageError")
          /\ UNCHANGED ret
     ELSE /\ ret' = ConvertRGBA(Decode(file))
          /\ pc' = "done"
          /\ UNCHANGED <<raised, excs>>
  /\ UNCHANGED <<file, method, img, original, result1, result2, result3,
                 blurSel, edgeSel>>

\* edge_based_removal, lines 327-328
EdgeBasedRemoval ==
  /\ pc = "edge"
  /\ IF file = Corrupt
     THEN /\ Throw("edge_open", "UnidentifiedImageError")
          /\ UNCHANGED <<img, ret, calls, edgeSel>>
     ELSE /\ calls' = Append(calls, "s3")
          /\ \E fault \in BOOLEAN, sel \in EdgeSels :
               LET r == advanced_edge_segmentation(Decode(file), sel)
               IN  /\ img' = r.src
                   /\ IF fault
                      THEN /\ Throw("edge", "RuntimeFault")
                           /\ UNCHANGED <<ret, edgeSel>>
                      ELSE /\ ret' = r.ret
                           /\ edgeSel' = sel
                           /\ pc' = "done"
                           /\ UNCHANGED <<raised, excs>>
  /\ UNCHANGED <<file, method, original, result1, result2, result3, blurSel>>

\* color_threshold_removal, lines 330-331
ColorThresholdRemoval ==
  /\ pc = "color"
  /\ IF file = Corrupt
     THEN /\ Throw("color_open", "UnidentifiedImageError")
          /\ UNCHANGED <<img, ret, calls, blurSel>>
     ELSE /\ calls' = Append(calls, "s2")
          /\ \E fault \in BOOLEAN, sel \in BlurSels :
               LET r == color_clustering_removal(Decode(file), sel)
               IN  /\ img' = r.src
                   /\ IF fault
                      THEN /\ Throw("color", "RuntimeFault")
                           /\ UNCHANGED <<ret, blurSel>>
                      ELSE /\ ret' = r.ret
                           /\ blurSel' = sel
                           /\ pc' = "done"
                           /\ UNCHANGED <<raised, excs>>
  /\ UNCHANGED <<file, method, original, result1, result2, result3, edgeSel>>

Next ==
  \/ home
  \/ ABROpen
  \/ ABRGrabcut
  \/ ABRColor
  \/ ABREdge
  \/ ABRCombine
  \/ ABRExcept
  \/ V2
  \/ V2Except
  \/ EdgeBasedRemoval
  \/ ColorThresholdRemoval

Spec == Init /\ [][Next]_vars

(***************************************************************************)
(* combine_results on its own: the program at line 23 with any three       *)
(* strategy results of one size.                                           *)
(***************************************************************************)
CombinePixels == {<<0, 0, 0, 0>>, <<10, 20, 30, 255>>, <<11, 23, 36, 128>>, <<200, 100, 50, 1>>}

CombineInputs ==
  {[mode |-> "RGBA", w |-> 2, h |-> 1, px |-> [i \in Cells(2, 1) |-> IF i = 0 THEN a ELSE b]] :
     a \in CombinePixels, b \in CombinePixels}

CombineInit ==
  /\ file = MakeImage("RGBA", 2, 1, "half", <<0, 0, 0>>, <<255, 255, 255>>)
  /\ method = "smart"
  /\ pc = "abr_combine"
  /\ img = Decode(file)
  /\ original = ConvertRGBA(Decode(file))
  /\ result1 \in CombineInputs
  /\ result2 \in CombineInputs
  /\ result3 \in CombineInputs
  /\ ret = NoImage
  /\ raised = ""
  /\ calls = <<"s1", "s2", "s3">>
  /\ excs = <<>>
  /\ blurSel = "same"
  /\ edgeSel = "all"

CombineSpec == CombineInit /\ [][ABRCombine]_vars

(***************************************************************************)
(* Properties.                                                             *)
(***************************************************************************)
Done == pc = "done"

Readable == file # Corrupt

\* no exception of the runtime was injected: every raise is the code's own
NoFault == \A k \in DOMAIN excs : excs[k].kind # "RuntimeFault"

\* every exception so far was injected by the runtime: the code raised none
OnlyFaults == \A k \in DOMAIN excs : excs[k].kind = "RuntimeFault"

Ensemble == method \notin {"white", "edge", "color"}

Called(name) == \E k \in DOMAIN calls : calls[k] = name

FailedAt(places) == \E k \in DOMAIN excs : excs[k].at \in places

AlphaOf(image) == {image.px[i][4] : i \in DOMAIN image.px}

IsUniform(f) == f # Corrupt /\ \A i, j \in DOMAIN f.px : f.px[i] = f.px[j]

\* C1: for a readable input no exception reaches the caller, whatever the
\* method: a raise inside the selected strategy is answered by strategy 4 on
\* the original file, and a failure of that by the original as RGBA.
C1_NeverPropagates ==
  Readable =>
    /\ raised = ""
    /\ (Done /\ excs # <<>> =>
          \/ ret = smart_background_removal_v2(file).ret
          \/ ret = ConvertRGBA(Decode(file)))

\* C2: in the image combine_results returns, a pixel has alpha > 0 exactly
\* when at least 2 of the 3 inputs have alpha > 0 there; then each of its four
\* channels is the floor of the mean of that channel over the inputs with
\* alpha > 0, and otherwise the pixel is (0,0,0,0).
C2_Consensus ==
  Done /\ ret # NoImage =>
    \A i \in Cells(original.w, original.h) :
      LET ins    == <<result1, result2, result3>>
          voting == {r \in 1 .. 3 : ins[r].px[i][4] > 0}
          n      == Cardinality(voting)
          total(c) == SumTo([r \in 0 .. 2 |-> IF (r + 1) \in voting
                                              THEN ins[r + 1].px[i][c] ELSE 0], 3)
      IN  /\ (ret.px[i][4] > 0) <=> (n >= 2)
          /\ n >= 2 => \A c \in 1 .. 4 :
                          /\ n * ret.px[i][c] <= total(c)
                          /\ total(c) < n * (ret.px[i][c] + 1)
          /\ n < 2 => ret.px[i] = <<0, 0, 0, 0>>

\* C2 witness: a consensus of exactly two differing voters next to a pixel
\* with a single voter
C2_Witness ==
  /\ Done /\ ret # NoImage
  /\ result1.px[0][4] > 0 /\ result2.px[0][4] > 0 /\ result3.px[0][4] = 0
  /\ result1.px[0] # result2.px[0]
  /\ ret.px[0][4] > 0
  /\ result1.px[1][4] > 0 /\ result2.px[1][4] = 0 /\ result3.px[1][4] = 0
  /\ ret.px[1] = <<0, 0, 0, 0>>

Ens == <<"s1", "s2", "s3", "combine">>

\* C3: "white" runs strategy 4 alone, "edge" strategy 3 alone, "color"
\* strategy 2 alone; any other selector runs strategies 1, 2, 3 and then the
\* combiner on their three results, never raises because of its value, and
\* strategy 4 is never run before the combiner (it is no voter).
C3_Dispatch ==
  /\ method = "white" => \A k \in DOMAIN calls : calls[k] = IF k = 1 THEN "s4" ELSE "rgba"
  /\ method = "edge"  => calls \in {<<>>, <<"s3">>}
  /\ method = "color" => calls \in {<<>>, <<"s2">>}
  /\ Ensemble =>
       /\ Readable /\ calls # <<>> => calls[1] = "s1"
       /\ \A k \in DOMAIN calls :
            (\A j \in 1 .. k : calls[j] \notin {"s4", "rgba"}) => k <= 4 /\ calls[k] = Ens[k]
       /\ Done /\ excs = <<>> =>
            /\ calls = Ens
            /\ ret = combine_results(<<result1, result2, result3>>, original)
       /\ \A j, k \in DOMAIN calls : j < k => ~ (calls[j] = "s4" /\ calls[k] = "combine")
       /\ raised # "" => ~ Readable

\* C3 witness: an unrecognised selector went through the whole ensemble
C3_Witness ==
  /\ method = "bogus" /\ Done /\ calls = Ens /\ ret # NoImage
  /\ \E i \in DOMAIN ret.px : ret.px[i][4] > 0

\* C4: whatever path produced it, the returned image has the width and the
\* height of the input (and one pixel per cell of that grid); so has each
\* strategy result of the ensemble.
C4_SameSize ==
  \A image \in {ret, result1, result2, result3} :
    image # NoImage =>
      /\ Readable
      /\ image.w = file.w
      /\ image.h = file.h
      /\ DOMAIN image.px = Cells(file.w, file.h)

\* C4 witness: the consensus of a non-square input
C4_Witness ==
  /\ Done /\ ret # NoImage /\ calls = Ens /\ file.w # file.h

\* C5 as claimed: every alpha of a returned image is 0 or 255.
C5_BinaryAlpha ==
  ret # NoImage => AlphaOf(ret) \subseteq {0, 255}

\* C5 as amended: every alpha of a returned image is 0 or the alpha the input
\* has at that pixel once converted to RGBA (255 for an input without alpha).
C5_AlphaZeroOrSource ==
  ret # NoImage =>
    \A i \in DOMAIN ret.px : ret.px[i][4] \in {0, ConvertRGBA(Decode(file)).px[i][4]}

\* C5 witness: a result that kept a half-transparent pixel and cleared an
\* opaque one
C5_Witness ==
  /\ Done /\ ret # NoImage
  /\ \E i, j \in DOMAIN ret.px :
       /\ ret.px[i][4] = 128
       /\ ret.px[j][4] = 0 /\ ConvertRGBA(Decode(file)).px[j][4] = 255

\* C6: on an image of one colour, strategy 2 (method "color") and strategy 4
\* (method "white") each return a fully transparent image.
C6_UniformIsTransparent ==
  (IsUniform(file) /\ method \in {"white", "color"} /\ Done /\ NoFault /\ ret # NoImage)
    => AlphaOf(ret) = {0}

\* C7: on a 1x1 colour image no strategy raises from its own code.
C7_TinyNeverRaises ==
  (Readable /\ file.w = 1 /\ file.h = 1 /\ file.mode # "L") => OnlyFaults

TrueDist2(p, c) ==
  (p[1] - c[1]) * (p[1] - c[1]) + (p[2] - c[2]) * (p[2] - c[2])
  + (p[3] - c[3]) * (p[3] - c[3])

\* C9: once strategy 1 has run, its mask before the median filter is 255 at a
\* pixel exactly when the pixel lies in the seed rectangle or its true
\* Euclidean RGB distance to the centre pixel is below 50.
C9_TrueEuclidean ==
  (Called("s1") /\ img # NoImage /\ img.mode # "L") =>
    \A i \in Cells(img.w, img.h) :
      (GrabcutMask(img)[i] = 255) <=>
         \/ InSeed(XOf(i, img.w), YOf(i, img.w), img.w, img.h)
         \/ TrueDist2(img.px[i], img.px[(img.h \div 2) * img.w + (img.w \div 2)])
              < ColorDiffLimit * ColorDiffLimit

AbrSteps == {"abr_open", "abr_s1", "abr_s2", "abr_s3", "abr_combine"}

\* C8: on the ensemble path strategy 4 is run only after the opening, a
\* strategy or the combiner has failed, and the RGBA passthrough only right
\* after strategy 4 has failed; the image returned is the consensus of the
\* three complete strategy results, or strategy 4's complete result on the
\* file, or the file as RGBA, and nothing else.
C8_AllOrNothing ==
  Ensemble =>
    /\ \A k \in DOMAIN calls : calls[k] = "s4" => FailedAt(AbrSteps)
    /\ \A k \in DOMAIN calls :
         calls[k] = "rgba" => k > 1 /\ calls[k - 1] = "s4" /\ FailedAt({"v2"})
    /\ Done /\ ret # NoImage =>
         IF excs = <<>>
         THEN ret = combine_results(
                      <<grabcut_simulation(Decode(file)).ret,
                        color_clustering_removal(Decode(file), blurSel).ret,
                        advanced_edge_segmentation(Decode(file), edgeSel).ret>>,
                      ConvertRGBA(Decode(file)))
         ELSE IF FailedAt({"v2"})
              THEN ret = ConvertRGBA(Decode(file))
              ELSE ret = smart_background_removal_v2(file).ret

\* C8 witness: the combiner failed after all three strategies had finished,
\* and strategy 4's own result (part kept, part cleared) was returned
C8_Witness ==
  /\ Ensemble /\ Done /\ ret # NoImage
  /\ calls = <<"s1", "s2", "s3", "combine", "s4">>
  /\ AlphaOf(ret) = {0, 255}

\* C10: a strategy leaves the image it was handed as decoded, so each result
\* of the ensemble is the strategy's result on the decoded file, whatever ran
\* before it.
C10_SourceUntouched ==
  /\ img # NoImage => img = Decode(file)
  /\ result1 # NoImage => result1 = grabcut_simulation(Decode(file)).ret
  /\ result2 # NoImage => result2 = color_clustering_removal(Decode(file), blurSel).ret
  /\ result3 # NoImage => result3 = advanced_edge_segmentation(Decode(file), edgeSel).ret

\* C10 witness: all three strategies have run on one image and disagree
C10_Witness ==
  /\ pc = "abr_combine"
  /\ result1 # NoImage /\ result2 # NoImage /\ result3 # NoImage
  /\ result1 # result2 /\ result2 # result3 /\ result1 # result3

====
